---- MODULE Spec2Model ----
(***************************************************************************)
(* Model of the store-email route handler                                  *)
(* (supabase-vector-db/app/api/store-email/route.ts): the email validator, *)
(* the in-memory fixed-window rate limiter and the POST handler, whose     *)
(* invocations interleave at their await points.                           *)
(***************************************************************************)
EXTENDS Integers, Sequences, FiniteSets, TLC

(***************************************************************************)
(* Program constants.                                                      *)
(***************************************************************************)
MAX_SUBJECT_LENGTH == 200

MAX_BODY_LENGTH == 500000

RATE_LIMIT == 10

RATE_LIMIT_WINDOW == 60 * 1000

(***************************************************************************)
(* JSON values as the handler sees them after request.json().  A string is *)
(* its leading characters s followed by fill further letters "x", so that  *)
(* long texts need no explicit expansion to take their length.             *)
(***************************************************************************)
Undefined == [t |-> "undefined"]

Null == [t |-> "null"]

Str(chars) == [t |-> "string", s |-> chars, fill |-> 0]

Text(n) == [t |-> "string", s |-> << >>, fill |-> n]

Num(k) == [t |-> "number", n |-> k]

Arr(elems) == [t |-> "array", a |-> elems]

Chars(v) == v.s \o [i \in 1..v.fill |-> "x"]

\* JavaScript truthiness, as used by the ! and || operators.
Truthy(v) ==
  CASE v.t = "undefined" -> FALSE
    [] v.t = "null" -> FALSE
    [] v.t = "string" -> Len(v.s) + v.fill > 0
    [] v.t = "number" -> v.n # 0
    [] OTHER -> TRUE

IsArray(v) == v.t = "array"

\* The .length property: defined on strings and arrays only.
HasLength(v) == v.t \in {"string", "array"}

LengthOf(v) == IF v.t = "string" THEN Len(v.s) + v.fill ELSE Len(v.a)

\* Variant: the comparison is >= instead of >.
LengthExceedsInclusive(v, max) == HasLength(v) /\ LengthOf(v) >= max

\* v.length > max; undefined > max is false in JavaScript.
LengthExceeds(v, max) == HasLength(v) /\ LengthOf(v) > max

Digit(d) == <<"0", "1", "2", "3", "4", "5", "6", "7", "8", "9">>[d + 1]

RECURSIVE Digits(_)
Digits(k) == IF k < 10 THEN <<Digit(k)>> ELSE Digits(k \div 10) \o <<Digit(k % 10)>>

RECURSIVE ToStr(_)
RECURSIVE JoinFrom(_, _, _)
\* Array.prototype.join: null and undefined elements become the empty string.
JoinFrom(elems, i, sep) ==
  IF i > Len(elems) THEN << >>
  ELSE (IF i > 1 THEN sep ELSE << >>)
       \o (IF elems[i].t \in {"undefined", "null"} THEN << >> ELSE ToStr(elems[i]))
       \o JoinFrom(elems, i + 1, sep)

\* String(v), the coercion RegExp.prototype.test and template literals apply.
ToStr(v) ==
  CASE v.t = "string" -> Chars(v)
    [] v.t = "undefined" -> <<"u", "n", "d", "e", "f", "i", "n", "e", "d">>
    [] v.t = "null" -> <<"n", "u", "l", "l">>
    [] v.t = "number" -> Digits(v.n)
    [] v.t = "array" -> JoinFrom(v.a, 1, <<",">>)
    [] OTHER -> <<"[", "o", "b", "j", "e", "c", "t", " ", "O", "b", "j", "e", "c", "t", "]">>

Join(elems, sep) == JoinFrom(elems, 1, sep)

(***************************************************************************)
(* EMAIL_REGEX = /^[a-zA-Z0-9._%+-]+@[a-zA-Z0-9.-]+\.[a-zA-Z]{2,}$/        *)
(* run as the automaton of the pattern: the set of positions of the        *)
(* pattern that are live after each character.                             *)
(***************************************************************************)
Letters ==
  {"a", "b", "c", "d", "e", "f", "g", "h", "i", "j", "k", "l", "m",
   "n", "o", "p", "q", "r", "s", "t", "u", "v", "w", "x", "y", "z",
   "A", "B", "C", "D", "E", "F", "G", "H", "I", "J", "K", "L", "M",
   "N", "O", "P", "Q", "R", "S", "T", "U", "V", "W", "X", "Y", "Z"}

DigitChars == {"0", "1", "2", "3", "4", "5", "6", "7", "8", "9"}

LocalChars == Letters \cup DigitChars \cup {".", "_", "%", "+", "-"}

DomainChars == Letters \cup DigitChars \cup {".", "-"}

\* Variant: the dot before the last label is not escaped and matches any
\* character.
RegexStepAnyDot(q, ch) ==
  CASE q = 0 -> IF ch \in LocalChars THEN {1} ELSE {}
    [] q = 1 -> (IF ch \in LocalChars THEN {1} ELSE {}) \cup (IF ch = "@" THEN {2} ELSE {})
    [] q = 2 -> IF ch \in DomainChars THEN {3} ELSE {}
    [] q = 3 -> (IF ch \in DomainChars THEN {3} ELSE {}) \cup {4}
    [] q = 4 -> IF ch \in Letters THEN {5} ELSE {}
    [] q = 5 -> IF ch \in Letters THEN {6} ELSE {}
    [] OTHER -> IF ch \in Letters THEN {6} ELSE {}

\* Positions: 0 start, 1 in local part, 2 after "@", 3 in domain,
\* 4 after the dot, 5 one letter of the last label, 6 two or more letters.
RegexStep(q, ch) ==
  CASE q = 0 -> IF ch \in LocalChars THEN {1} ELSE {}
    [] q = 1 -> (IF ch \in LocalChars THEN {1} ELSE {}) \cup (IF ch = "@" THEN {2} ELSE {})
    [] q = 2 -> IF ch \in DomainChars THEN {3} ELSE {}
    [] q = 3 -> (IF ch \in DomainChars THEN {3} ELSE {}) \cup (IF ch = "." THEN {4} ELSE {})
    [] q = 4 -> IF ch \in Letters THEN {5} ELSE {}
    [] q = 5 -> IF ch \in Letters THEN {6} ELSE {}
    [] OTHER -> IF ch \in Letters THEN {6} ELSE {}

RECURSIVE RegexRun(_, _, _)
RegexRun(str, i, live) ==
  IF i > Len(str) THEN live
  ELSE RegexRun(str, i + 1, UNION {RegexStep(q, str[i]) : q \in live})

EMAIL_REGEX_test(str) == 6 \in RegexRun(str, 1, {0})

isValidEmail(email) == EMAIL_REGEX_test(ToStr(email))

(***************************************************************************)
(* validateEmailData.  data is the parsed request body: an object with the *)
(* six fields below (an absent field is Undefined), or any other JSON      *)
(* value.  Reading a property of null throws a TypeError; reading one of   *)
(* any other non-object value gives undefined.                             *)
(***************************************************************************)
Obj(subject, sender, recipients, cc, bcc, body) ==
  [t |-> "object", subject |-> subject, sender |-> sender,
   recipients |-> recipients, cc |-> cc, bcc |-> bcc, body |-> body]

ValidateThrows(data) == data.t \in {"null", "undefined"}

Field(data, f) == IF data.t = "object" THEN data[f] ELSE Undefined

Err(msg, tail) == [msg |-> msg, tail |-> tail]

\* Variant: the filter keeps every element.
InvalidAll(list) == list

Invalid(list) == SelectSeq(list, LAMBDA email : ~isValidEmail(email))

PresenceErrors(data) ==
  (IF ~Truthy(Field(data, "subject")) THEN <<Err("Subject is required", << >>)>> ELSE << >>)
  \o (IF ~Truthy(Field(data, "sender")) THEN <<Err("Sender is required", << >>)>> ELSE << >>)
  \o (IF \/ ~Truthy(Field(data, "recipients"))
         \/ ~IsArray(Field(data, "recipients"))
         \/ Len(Field(data, "recipients").a) = 0
      THEN <<Err("At least one recipient is required", << >>)>> ELSE << >>)
  \o (IF ~Truthy(Field(data, "body")) THEN <<Err("Email body is required", << >>)>> ELSE << >>)

\* Variant: the entry names the first failing address only.
ListErrorsFirstOnly(list, msg, needNonEmpty) ==
  IF IsArray(list) /\ (needNonEmpty => Len(list.a) > 0) /\ Len(Invalid(list.a)) > 0
  THEN <<Err(msg, ToStr(Invalid(list.a)[1]))>>
  ELSE << >>

ListErrors(list, msg, needNonEmpty) ==
  IF IsArray(list) /\ (needNonEmpty => Len(list.a) > 0) /\ Len(Invalid(list.a)) > 0
  THEN <<Err(msg, Join(Invalid(list.a), <<",", " ">>))>>
  ELSE << >>

FormatErrors(data) ==
  (IF ~isValidEmail(Field(data, "sender"))
   THEN <<Err("Sender email format is invalid", << >>)>> ELSE << >>)
  \o ListErrors(Field(data, "recipients"), "Invalid recipient email format: ", FALSE)
  \o ListErrors(Field(data, "cc"), "Invalid CC email format: ", TRUE)
  \o ListErrors(Field(data, "bcc"), "Invalid BCC email format: ", TRUE)

LengthErrors(data) ==
  (IF LengthExceeds(Field(data, "subject"), MAX_SUBJECT_LENGTH)
   THEN <<Err("Subject exceeds maximum length of N characters", Digits(MAX_SUBJECT_LENGTH))>>
   ELSE << >>)
  \o (IF LengthExceeds(Field(data, "body"), MAX_BODY_LENGTH)
      THEN <<Err("Email body exceeds maximum length of N characters", Digits(MAX_BODY_LENGTH))>>
      ELSE << >>)

\* Variant: the length checks come before the format checks.
validateEmailDataLengthFirst(data) ==
  IF Len(PresenceErrors(data)) > 0
  THEN [valid |-> FALSE, errors |-> PresenceErrors(data)]
  ELSE [valid |-> Len(FormatErrors(data) \o LengthErrors(data)) = 0,
        errors |-> LengthErrors(data) \o FormatErrors(data)]

\* Variant: the early return on missing fields is absent.
validateEmailDataNoEarlyReturn(data) ==
  [valid |-> Len(PresenceErrors(data) \o FormatErrors(data) \o LengthErrors(data)) = 0,
   errors |-> PresenceErrors(data) \o FormatErrors(data) \o LengthErrors(data)]

validateEmailData(data) ==
  IF Len(PresenceErrors(data)) > 0
  THEN [valid |-> FALSE, errors |-> PresenceErrors(data)]
  ELSE [valid |-> Len(FormatErrors(data) \o LengthErrors(data)) = 0,
        errors |-> FormatErrors(data) \o LengthErrors(data)]

(***************************************************************************)
(* checkRateLimit.  ipRequests is the Map: a function whose domain is the  *)
(* set of keys seen so far.  The result carries the Map after the call.    *)
(***************************************************************************)
NoMessage == ""

RateLimitMessage == "Rate limit exceeded. Maximum 10 requests per minute."

\* Variant: the Map is rebuilt with the one entry.
MapSetOnly(map, key, entry) == (key :> entry)

MapSet(map, key, entry) == (key :> entry) @@ map

\* Variant: the request that opens a window is not counted.
FreshEntryZero(t) == [count |-> 0, timestamp |-> t]

FreshEntry(t) == [count |-> 1, timestamp |-> t]

\* Variant: the entry is written back without the increment.
IncrementedEntryStale(requestData) ==
  [count |-> requestData.count, timestamp |-> requestData.timestamp]

IncrementedEntry(requestData) ==
  [count |-> requestData.count + 1, timestamp |-> requestData.timestamp]

\* Variant: the window length is taken in seconds.
WindowElapsedInSeconds(t, requestData) ==
  t - requestData.timestamp > RATE_LIMIT_WINDOW \div 1000

\* Variant: the window test is >= instead of >.
WindowElapsedInclusive(t, requestData) == t - requestData.timestamp >= RATE_LIMIT_WINDOW

WindowElapsed(t, requestData) == t - requestData.timestamp > RATE_LIMIT_WINDOW

\* Variant: the limit test is > instead of >=.
LimitReachedOffByOne(requestData) == requestData.count > RATE_LIMIT

LimitReached(requestData) == requestData.count >= RATE_LIMIT

\* Variant: a denied call restarts the window.
DeniedMapTouch(map, ip, t) == MapSet(map, ip, [count |-> map[ip].count, timestamp |-> t])

\* The Map after a denied call: the deny branch returns without a set.
DeniedMap(map, ip, t) == map

checkRateLimit(ip, t, map) ==
  IF ip \notin DOMAIN map
  THEN [allowed |-> TRUE, message |-> NoMessage, map |-> MapSet(map, ip, FreshEntry(t))]
  ELSE IF WindowElapsed(t, map[ip])
  THEN [allowed |-> TRUE, message |-> NoMessage, map |-> MapSet(map, ip, FreshEntry(t))]
  ELSE IF LimitReached(map[ip])
  THEN [allowed |-> FALSE, message |-> RateLimitMessage, map |-> DeniedMap(map, ip, t)]
  ELSE [allowed |-> TRUE, message |-> NoMessage,
        map |-> MapSet(map, ip, IncrementedEntry(map[ip]))]

(***************************************************************************)
(* Bounds and the inputs the environment draws from.                       *)
(***************************************************************************)
MaxHandlers == 2

MaxNow == 90001

MaxId == 2

ObservedCap == 12

Handlers == 1..MaxHandlers

\* Milliseconds between two successive reads of Date.now().
Deltas == {0, 60001}

DeltasRL == {0, 30000, 60001}

NoHeader == [present |-> FALSE, value |-> ""]

Hdr(v) == [present |-> TRUE, value |-> v]

\* Values of the x-forwarded-for header.
ForwardedFor == {NoHeader, Hdr(""), Hdr("10.0.0.1"), Hdr("unknown")}

OneClient == {Hdr("10.0.0.1")}

\* Values of the content-type header, as the sequence of their parts.
NoContentType == [present |-> FALSE, parts |-> << >>]

ContentType(parts) == [present |-> TRUE, parts |-> parts]

ContentTypes ==
  {NoContentType, ContentType(<<"text/plain">>),
   ContentType(<<"application/json", "; charset=utf-8">>)}

\* Outcomes of the awaited external calls.
ClientOutcomes == {"ok", "throws"}

SessionOutcomes == {"session", "none", "throws"}

StoreOutcomes ==
  {[kind |-> "error", id |-> 0], [kind |-> "throws", id |-> 0]}
  \cup {[kind |-> "row", id |-> i] : i \in 1..MaxId}

GoodAddr == Str(<<"a", "@", "b", ".", "c", "o">>)

OtherAddr == Str(<<"c", "@", "d", ".", "i", "o">>)

BadAddr == Str(<<"n", "o", "t", "-", "a", "n", "-", "e", "m", "a", "i", "l">>)

\* Request bodies: json is FALSE when request.json() rejects.
Bodies ==
  << [json |-> FALSE, value |-> Null],
     [json |-> TRUE, value |-> Null],
     [json |-> TRUE,
      value |-> Obj(Text(2), GoodAddr, Arr(<<OtherAddr>>), Undefined, Undefined, Text(5))],
     [json |-> TRUE,
      value |-> Obj(Text(2), BadAddr, Arr(<<OtherAddr>>), Undefined, Undefined, Text(5))],
     [json |-> TRUE,
      value |-> Obj(Undefined, GoodAddr, Arr(<<OtherAddr>>), Arr(<<GoodAddr>>), Undefined, Text(5))],
     [json |-> TRUE,
      value |-> Obj(Arr(<<Text(MAX_SUBJECT_LENGTH + 1)>>), GoodAddr, Arr(<<OtherAddr>>),
                    Undefined, Arr(<< >>), Text(5))] >>

\* Further request bodies, read in SpecOne only: cc a bare string, cc a list
\* with an ill-formed address, and recipients a bare address.
ListBodies ==
  << [json |-> TRUE,
      value |-> Obj(Text(2), GoodAddr, Arr(<<OtherAddr>>), BadAddr, Undefined, Text(5))],
     [json |-> TRUE,
      value |-> Obj(Text(2), GoodAddr, Arr(<<OtherAddr>>), Arr(<<GoodAddr, BadAddr>>),
                    Arr(<<OtherAddr>>), Text(5))],
     [json |-> TRUE,
      value |-> Obj(Text(2), GoodAddr, OtherAddr, Undefined, Undefined, Text(5))] >>

AllBodies == Bodies \o ListBodies

\* The arguments validateEmailData is applied to in SpecV: each field absent,
\* empty, well-formed or ill-formed, the address lists up to MaxList long.
MaxList == 2

NoDotAddr == Str(<<"x", "@", "y">>)

ListsUpTo(S, n) == UNION {[1..k -> S] : k \in 0..n}

Subjects ==
  {Undefined, Str(<< >>), Text(MAX_SUBJECT_LENGTH), Text(MAX_SUBJECT_LENGTH + 1)}

Senders == {Undefined, GoodAddr, BadAddr}

RecipientLists ==
  {Undefined, GoodAddr} \cup {Arr(l) : l \in ListsUpTo({GoodAddr, BadAddr, NoDotAddr}, MaxList)}

CcLists == {Undefined, BadAddr} \cup {Arr(l) : l \in ListsUpTo({OtherAddr, BadAddr}, MaxList)}

BccLists ==
  {Undefined, Arr(<< >>), Arr(<<OtherAddr>>), Arr(<<NoDotAddr>>), Arr(<<BadAddr, NoDotAddr>>)}

BodyTexts == {Undefined, Text(MAX_BODY_LENGTH), Text(MAX_BODY_LENGTH + 1)}

\* The strings isValidEmail is applied to in SpecE: all those of up to MaxLen
\* characters over a letter, a digit, the dot, the at sign and the underscore,
\* each as a first character, if any, and the rest.
MaxLen == 7

Alphabet == {"a", "1", ".", "@", "_"}

Submissions ==
  {Null, Num(7)}
  \cup {Obj(subject, sender, recipients, cc, bcc, body) :
          subject \in Subjects, sender \in Senders, recipients \in RecipientLists,
          cc \in CcLists, bcc \in BccLists, body \in BodyTexts}

(***************************************************************************)
(* State.                                                                  *)
(*  now            the last value read from Date.now()                     *)
(*  ipRequests     the rate limiter's Map                                  *)
(*  isDevelopment  process.env.NODE_ENV === 'development'                  *)
(*  handler        the invocations of POST: the await each is at, the      *)
(*                 steps it has taken with their outcomes, the body it     *)
(*                 read, the record it handed to the store's insert, the   *)
(*                 number of insert calls it made, and its response        *)
(*  observed       history: per key, the window the calls fall in, counted *)
(*                 from the first call of the window, with the number of   *)
(*                 calls and of allowed calls in it                        *)
(*  admitted       history, kept by SpecBurst only: the allowed calls of   *)
(*                 the last RATE_LIMIT_WINDOW ms, as the number of them at *)
(*                 each time                                               *)
(*  submission     the argument of validateEmailData in SpecV              *)
(*  validation     what validateEmailData returned for it                  *)
(***************************************************************************)
VARIABLES now, ipRequests, isDevelopment, handler, observed, admitted, submission, validation

vars == <<now, ipRequests, isDevelopment, handler, observed, admitted, submission, validation>>

NoRecord ==
  [subject |-> Undefined, sender |-> Undefined, recipient |-> Undefined,
   cc |-> Undefined, bcc |-> Undefined, body |-> Undefined]

NoResponse ==
  [status |-> 0, success |-> FALSE, error |-> "", details |-> << >>, emailId |-> 0]

ErrorResponse(status, error, details) ==
  [status |-> status, success |-> FALSE, error |-> error, details |-> details, emailId |-> 0]

\* Variant: data.id instead of data[0].id.
SuccessResponseNoId(data) ==
  [status |-> 200, success |-> TRUE, error |-> "", details |-> << >>, emailId |-> 0]

SuccessResponse(data) ==
  [status |-> 200, success |-> TRUE, error |-> "", details |-> << >>, emailId |-> data[1].id]

RateLimitedResponse(message) == ErrorResponse(429, message, << >>)

UnsupportedMediaResponse == ErrorResponse(415, "Content-Type must be application/json", << >>)

UnauthorizedResponse == ErrorResponse(401, "Unauthorized: Authentication required", << >>)

InvalidJsonResponse == ErrorResponse(400, "Invalid JSON in request body", << >>)

ValidationFailedResponse(errors) == ErrorResponse(400, "Validation failed", errors)

StoreFailedResponse ==
  ErrorResponse(500, "Failed to store email data", <<Err("error.message", << >>)>>)

UnexpectedResponse ==
  ErrorResponse(500, "An unexpected error occurred", <<Err("error.message", << >>)>>)

IdleHandler ==
  [pc |-> "idle", trace |-> << >>, body |-> 0, record |-> NoRecord,
   inserts |-> 0, resp |-> NoResponse]

Step(gate, out) == [gate |-> gate, out |-> out]

\* The step ends the invocation with a response.
Respond(h, gate, out, resp) ==
  [h EXCEPT !.pc = "done", !.trace = @ \o <<Step(gate, out)>>, !.resp = resp]

\* The step succeeds and the invocation goes on to its next await.
Proceed(h, gate, pc) == [h EXCEPT !.pc = pc, !.trace = @ \o <<Step(gate, "ok")>>]

\* request.headers.get('x-forwarded-for') || 'unknown'
ResolveIp(header) ==
  IF header.present /\ header.value # "" THEN header.value ELSE "unknown"

\* !contentType || !contentType.includes('application/json')
NotJson(header) ==
  \/ ~header.present
  \/ ~\E i \in 1..Len(header.parts) : header.parts[i] = "application/json"

\* a || []
OrEmpty(v) == IF Truthy(v) THEN v ELSE Arr(<< >>)

InsertArgument(data) ==
  [subject |-> Field(data, "subject"),
   sender |-> Field(data, "sender"),
   recipient |-> IF IsArray(Field(data, "recipients"))
                 THEN Field(data, "recipients") ELSE Arr(<<Field(data, "recipients")>>),
   cc |-> OrEmpty(Field(data, "cc")),
   bcc |-> OrEmpty(Field(data, "bcc")),
   body |-> Field(data, "body")]

\* POST from its start to the await of createClient.
AfterRateLimit(rateLimitCheck, contentType) ==
  IF ~rateLimitCheck.allowed
  THEN Respond(IdleHandler, "rate", "fail", RateLimitedResponse(rateLimitCheck.message))
  ELSE IF NotJson(contentType)
  THEN Respond(Proceed(IdleHandler, "rate", "idle"), "type", "fail", UnsupportedMediaResponse)
  ELSE Proceed(Proceed(IdleHandler, "rate", "idle"), "type", "createClient")

\* Variant: the exception escapes POST (no try/catch) and no response is made.
AfterCreateClientUncaught(h, outcome, development) ==
  IF outcome = "throws"
  THEN [h EXCEPT !.pc = "crashed", !.trace = @ \o <<Step("client", "throw")>>]
  ELSE Proceed(h, "client", IF development THEN "json" ELSE "getSession")

\* From createClient settling to the next await: getSession, or request.json()
\* in development mode.
AfterCreateClient(h, outcome, development) ==
  IF outcome = "throws"
  THEN Respond(h, "client", "throw", UnexpectedResponse)
  ELSE Proceed(h, "client", IF development THEN "json" ELSE "getSession")

\* Variant: the 401 branch lacks its return.
AfterGetSessionFallsThrough(h, outcome) ==
  CASE outcome = "throws" -> Respond(h, "session", "throw", UnexpectedResponse)
    [] outcome = "none" ->
         [h EXCEPT !.pc = "json", !.trace = @ \o <<Step("session", "fail")>>,
                   !.resp = UnauthorizedResponse]
    [] OTHER -> Proceed(h, "session", "json")

AfterGetSession(h, outcome) ==
  CASE outcome = "throws" -> Respond(h, "session", "throw", UnexpectedResponse)
    [] outcome = "none" -> Respond(h, "session", "fail", UnauthorizedResponse)
    [] OTHER -> Proceed(h, "session", "json")

\* From request.json() settling to the await of the insert.
AfterJson(h, b) ==
  IF ~AllBodies[b].json
  THEN Respond([h EXCEPT !.body = b], "parse", "fail", InvalidJsonResponse)
  ELSE IF ValidateThrows(AllBodies[b].value)
  THEN Respond(Proceed([h EXCEPT !.body = b], "parse", "json"), "valid", "throw",
               UnexpectedResponse)
  ELSE IF ~validateEmailData(AllBodies[b].value).valid
  THEN Respond(Proceed([h EXCEPT !.body = b], "parse", "json"), "valid", "fail",
               ValidationFailedResponse(validateEmailData(AllBodies[b].value).errors))
  ELSE Proceed(Proceed([h EXCEPT !.body = b, !.inserts = @ + 1,
                                 !.record = InsertArgument(AllBodies[b].value)],
                       "parse", "json"),
               "valid", "insert")

\* Variant: a store error is answered by a second insert.
AfterInsertRetry(h, outcome) ==
  CASE outcome.kind = "throws" -> Respond(h, "insert", "throw", UnexpectedResponse)
    [] outcome.kind = "error" -> [h EXCEPT !.inserts = @ + 1]
    [] OTHER -> Respond(h, "insert", "ok", SuccessResponse(<<[id |-> outcome.id]>>))

\* From the insert settling to the response.
AfterInsert(h, outcome) ==
  CASE outcome.kind = "throws" -> Respond(h, "insert", "throw", UnexpectedResponse)
    [] outcome.kind = "error" -> Respond(h, "insert", "fail", StoreFailedResponse)
    [] OTHER -> Respond(h, "insert", "ok", SuccessResponse(<<[id |-> outcome.id]>>))

EmptyMap == [k \in {} |-> 0]

\* validateEmailData has not been called yet.
NoValidation == [state |-> "none", valid |-> FALSE, errors |-> << >>]

\* The allowed calls of the last RATE_LIMIT_WINDOW ms before t, as the number
\* of them at each time, with the call at t added if it was allowed.
Logged(log, t, allowed) ==
  LET recent == [u \in {v \in DOMAIN log : t - v <= RATE_LIMIT_WINDOW} |-> log[u]]
  IN IF allowed
     THEN (t :> (IF t \in DOMAIN recent THEN recent[t] + 1 ELSE 1)) @@ recent
     ELSE recent

\* The history of calls per key, kept beside the Map and never read by the code.
Observe(obs, ip, t, allowed) ==
  IF ip \in DOMAIN obs /\ t - obs[ip].start <= RATE_LIMIT_WINDOW
  THEN (ip :> [start |-> obs[ip].start,
               calls |-> IF obs[ip].calls < ObservedCap THEN obs[ip].calls + 1 ELSE ObservedCap,
               admits |-> obs[ip].admits + (IF allowed THEN 1 ELSE 0)]) @@ obs
  ELSE (ip :> [start |-> t, calls |-> 1, admits |-> IF allowed THEN 1 ELSE 0]) @@ obs

Init ==
  /\ now = 0
  /\ ipRequests = EmptyMap
  /\ isDevelopment \in BOOLEAN
  /\ handler = [s \in Handlers |-> IdleHandler]
  /\ observed = EmptyMap
  /\ admitted = EmptyMap
  /\ submission = Undefined
  /\ validation = NoValidation

(***************************************************************************)
(* A request arrives d ms after the last one: POST runs up to its first    *)
(* await, through the rate limit check and the content type check.         *)
(***************************************************************************)
Request(s, forwardedFor, contentType, d) ==
  /\ handler[s].pc \in {"idle", "done"}
  /\ now + d <= MaxNow
  /\ now' = now + d
  /\ LET ip == ResolveIp(forwardedFor)
         rateLimitCheck == checkRateLimit(ip, now', ipRequests)
     IN /\ ipRequests' = rateLimitCheck.map
        /\ observed' = Observe(observed, ip, now', rateLimitCheck.allowed)
        /\ handler' = [handler EXCEPT ![s] = AfterRateLimit(rateLimitCheck, contentType)]
  /\ UNCHANGED isDevelopment

Arrive(s, forwardedFor, contentType, d) ==
  /\ Request(s, forwardedFor, contentType, d)
  /\ UNCHANGED <<admitted, submission, validation>>

\* The same step, with the allowed call entered in the history admitted.
ArriveLogged(forwardedFor, contentType, d) ==
  /\ Request(1, forwardedFor, contentType, d)
  /\ admitted' = Logged(admitted, now',
                        checkRateLimit(ResolveIp(forwardedFor), now', ipRequests).allowed)
  /\ UNCHANGED <<submission, validation>>

CreateClientReturns(s, outcome) ==
  /\ handler[s].pc = "createClient"
  /\ handler' = [handler EXCEPT ![s] = AfterCreateClient(@, outcome, isDevelopment)]
  /\ UNCHANGED <<now, ipRequests, isDevelopment, observed, admitted, submission, validation>>

GetSessionReturns(s, outcome) ==
  /\ handler[s].pc = "getSession"
  /\ handler' = [handler EXCEPT ![s] = AfterGetSession(@, outcome)]
  /\ UNCHANGED <<now, ipRequests, isDevelopment, observed, admitted, submission, validation>>

JsonReturns(s, b) ==
  /\ handler[s].pc = "json"
  /\ handler' = [handler EXCEPT ![s] = AfterJson(@, b)]
  /\ UNCHANGED <<now, ipRequests, isDevelopment, observed, admitted, submission, validation>>

InsertReturns(s, outcome) ==
  /\ handler[s].pc = "insert"
  /\ handler' = [handler EXCEPT ![s] = AfterInsert(@, outcome)]
  /\ UNCHANGED <<now, ipRequests, isDevelopment, observed, admitted, submission, validation>>

(***************************************************************************)
(* Spec: the requests of one client through the whole handler, with        *)
(* MaxHandlers invocations in flight.                                      *)
(***************************************************************************)
Next ==
  \/ \E s \in Handlers, f \in OneClient, c \in ContentTypes, d \in Deltas : Arrive(s, f, c, d)
  \/ \E s \in Handlers, o \in ClientOutcomes : CreateClientReturns(s, o)
  \/ \E s \in Handlers, o \in SessionOutcomes : GetSessionReturns(s, o)
  \/ \E s \in Handlers, b \in 1..Len(Bodies) : JsonReturns(s, b)
  \/ \E s \in Handlers, o \in StoreOutcomes : InsertReturns(s, o)

Spec == Init /\ [][Next]_vars

(***************************************************************************)
(* SpecRL: the rate limiter across clients and window boundaries, driven   *)
(* by requests that end at the rate limit or the content type gate.        *)
(***************************************************************************)
NonJsonTypes == {c \in ContentTypes : NotJson(c)}

NextRL == \E f \in ForwardedFor, c \in NonJsonTypes, d \in DeltasRL : Arrive(1, f, c, d)

SpecRL == Init /\ [][NextRL]_vars

(***************************************************************************)
(* SpecOne: one invocation at a time through the whole handler, with the   *)
(* further request bodies.                                                 *)
(***************************************************************************)
NextOne ==
  \/ \E f \in OneClient, c \in ContentTypes, d \in Deltas : Arrive(1, f, c, d)
  \/ \E o \in ClientOutcomes : CreateClientReturns(1, o)
  \/ \E o \in SessionOutcomes : GetSessionReturns(1, o)
  \/ \E b \in 1..Len(AllBodies) : JsonReturns(1, b)
  \/ \E o \in StoreOutcomes : InsertReturns(1, o)

SpecOne == Init /\ [][NextOne]_vars

(***************************************************************************)
(* SpecClient: the requests of one client across window boundaries, taken  *)
(* by any of the invocations and ended by the rate limit or the content    *)
(* type gate.                                                              *)
(***************************************************************************)
NextClient ==
  \E s \in Handlers, f \in OneClient, c \in NonJsonTypes, d \in DeltasRL : Arrive(s, f, c, d)

SpecClient == Init /\ [][NextClient]_vars

(***************************************************************************)
(* SpecBurst: the rate limiter for one client across window boundaries,    *)
(* with the history of the allowed calls.                                  *)
(***************************************************************************)
NextBurst ==
  \E f \in OneClient, c \in NonJsonTypes, d \in DeltasRL : ArriveLogged(f, c, d)

SpecBurst == Init /\ [][NextBurst]_vars

(***************************************************************************)
(* SpecV: validateEmailData applied to one argument, as POST applies it to *)
(* the parsed body.                                                        *)
(***************************************************************************)
InitV ==
  /\ now = 0
  /\ ipRequests = EmptyMap
  /\ isDevelopment = FALSE
  /\ handler = [s \in Handlers |-> IdleHandler]
  /\ observed = EmptyMap
  /\ admitted = EmptyMap
  /\ submission \in Submissions
  /\ validation = NoValidation

Validate ==
  /\ validation.state = "none"
  /\ validation' =
       IF ValidateThrows(submission)
       THEN [state |-> "threw", valid |-> FALSE, errors |-> << >>]
       ELSE [state |-> "returned",
             valid |-> validateEmailData(submission).valid,
             errors |-> validateEmailData(submission).errors]
  /\ UNCHANGED <<now, ipRequests, isDevelopment, handler, observed, admitted, submission>>

NextV == Validate

SpecV == InitV /\ [][NextV]_vars

(***************************************************************************)
(* SpecE: isValidEmail applied to one string.                              *)
(***************************************************************************)
InitE ==
  /\ now = 0
  /\ ipRequests = EmptyMap
  /\ isDevelopment = FALSE
  /\ handler = [s \in Handlers |-> IdleHandler]
  /\ observed = EmptyMap
  /\ admitted = EmptyMap
  /\ \E first \in ListsUpTo(Alphabet, 1), rest \in ListsUpTo(Alphabet, MaxLen - 1) :
       submission = Str(first \o rest)
  /\ validation = NoValidation

IsValidEmailReturns ==
  /\ validation.state = "none"
  /\ validation' = [state |-> "tested", valid |-> isValidEmail(submission), errors |-> << >>]
  /\ UNCHANGED <<now, ipRequests, isDevelopment, handler, observed, admitted, submission>>

NextE == IsValidEmailReturns

SpecE == InitE /\ [][NextE]_vars

TypeOK ==
  /\ now \in 0..MaxNow
  /\ isDevelopment \in BOOLEAN
  /\ \A k \in DOMAIN ipRequests : ipRequests[k].count >= 1

(***************************************************************************)
(* Vocabulary of the properties.                                           *)
(***************************************************************************)
Min(a, b) == IF a < b THEN a ELSE b

Last(tr) == tr[Len(tr)]

InFlight(h) == h.pc \in {"createClient", "getSession", "json", "insert"}

\* The steps of POST in the order the handler takes them.
GateSeq ==
  IF isDevelopment
  THEN <<"rate", "type", "client", "parse", "valid", "insert">>
  ELSE <<"rate", "type", "client", "session", "parse", "valid", "insert">>

\* The steps taken follow the order, and only the last one may have failed.
LegalTrace(tr) ==
  /\ Len(tr) <= Len(GateSeq)
  /\ \A i \in 1..Len(tr) :
       /\ tr[i].gate = GateSeq[i]
       /\ i < Len(tr) => tr[i].out = "ok"

FailStatus(gate) ==
  CASE gate = "rate" -> 429
    [] gate = "type" -> 415
    [] gate = "session" -> 401
    [] gate = "parse" -> 400
    [] gate = "valid" -> 400
    [] OTHER -> 500

PassedValidation(tr) == \E i \in 1..Len(tr) : tr[i] = Step("valid", "ok")

\* The email-address shape as section 4.1 words it.
MatchesShape(str) ==
  \E i \in 2..Len(str), j \in 4..Len(str) :
    /\ str[i] = "@"
    /\ \A k \in 1..(i - 1) : str[k] \in Letters \cup DigitChars \cup {".", "_", "%", "+", "-"}
    /\ j >= i + 2
    /\ str[j] = "."
    /\ \A k \in (i + 1)..(j - 1) : str[k] \in Letters \cup DigitChars \cup {".", "-"}
    /\ Len(str) >= j + 2
    /\ \A k \in (j + 1)..Len(str) : str[k] \in Letters

IsAddress(v) == v.t = "string" /\ MatchesShape(Chars(v))

IsTextUpTo(v, max) == v.t = "string" /\ Len(v.s) + v.fill >= 1 /\ Len(v.s) + v.fill <= max

\* The constraints of the data model on subject, sender, recipients and body.
SubmissionConstraints(rec) ==
  /\ IsTextUpTo(rec.subject, 200)
  /\ IsAddress(rec.sender)
  /\ rec.recipient.t = "array"
  /\ Len(rec.recipient.a) >= 1
  /\ \A i \in 1..Len(rec.recipient.a) : IsAddress(rec.recipient.a[i])
  /\ IsTextUpTo(rec.body, 500000)

(***************************************************************************)
(* C1.  For one client, the calls of a window (those no later than 60,000  *)
(* ms after the call that opened it) are allowed up to the tenth and       *)
(* denied from the eleventh on; the first call after the window has        *)
(* elapsed is allowed and leaves the entry at count = 1, windowStart = the *)
(* time of that call.                                                      *)
(***************************************************************************)
C1_TenPerWindow ==
  [][\A f \in ForwardedFor, c \in NonJsonTypes, d \in DeltasRL :
       Arrive(1, f, c, d) =>
         /\ observed'[ResolveIp(f)].calls <= RATE_LIMIT => handler'[1].resp.status # 429
         /\ observed'[ResolveIp(f)].calls > RATE_LIMIT => handler'[1].resp.status = 429
         /\ observed'[ResolveIp(f)].calls = 1 =>
              ipRequests'[ResolveIp(f)] = [count |-> 1, timestamp |-> now']]_vars

C1_Witness ==
  \E ip \in DOMAIN observed :
    /\ observed[ip].calls = RATE_LIMIT + 1
    /\ observed[ip].start >= RATE_LIMIT_WINDOW
    /\ handler[1].resp.status = 429

(***************************************************************************)
(* The steps an invocation has taken follow the handler's order; only the  *)
(* last one may have failed or thrown; the response is that of the last    *)
(* step: the gate's status on failure, 500 on a throw, 200 after the       *)
(* insert returned the row.                                                *)
(***************************************************************************)
StatusOfLastStep ==
  \A s \in Handlers :
    /\ LegalTrace(handler[s].trace)
    /\ InFlight(handler[s]) =>
         /\ handler[s].resp = NoResponse
         /\ Len(handler[s].trace) >= 2
         /\ Last(handler[s].trace).out = "ok"
    /\ handler[s].pc = "done" =>
         /\ Last(handler[s].trace).out = "ok" => Last(handler[s].trace).gate = "insert"
         /\ handler[s].resp.status =
              CASE Last(handler[s].trace).out = "fail" -> FailStatus(Last(handler[s].trace).gate)
                [] Last(handler[s].trace).out = "throw" -> 500
                [] OTHER -> 200
         /\ Last(handler[s].trace) = Step("valid", "fail") => Len(handler[s].resp.details) > 0
         /\ Last(handler[s].trace).gate # "insert" => handler[s].inserts = 0

(***************************************************************************)
(* C2.  Every response has the status of the first gate that did not pass, *)
(* in the order rate limit (429), content type (415), session (401),       *)
(* parse (400), validation (400), store insert (500), and 200 if all       *)
(* passed; no step is taken after a gate that did not pass.  Requests      *)
(* ended by an exception of an external call (createClient, getSession,    *)
(* the insert) are left aside.                                             *)
(***************************************************************************)
C2_StatusOfFirstFailingGate ==
  \A s \in Handlers :
    /\ LegalTrace(handler[s].trace)
    /\ (/\ handler[s].pc = "done"
        /\ ~(/\ Last(handler[s].trace).out = "throw"
             /\ Last(handler[s].trace).gate \in {"client", "session", "insert"})) =>
         handler[s].resp.status =
           IF Last(handler[s].trace).out = "ok"
           THEN 200 ELSE FailStatus(Last(handler[s].trace).gate)

(***************************************************************************)
(* C3.  An invocation calls the store's insert once if it passed the rate  *)
(* limit, content type, session, parse and validation gates, and never     *)
(* otherwise; no invocation calls it twice, whatever the insert returns.   *)
(***************************************************************************)
C3_OneInsertPerValidRequest ==
  \A s \in Handlers :
    /\ handler[s].inserts <= 1
    /\ handler[s].inserts = 1 <=> PassedValidation(handler[s].trace)
    /\ PassedValidation(handler[s].trace) =>
         \A i \in 1..Len(handler[s].trace) :
           handler[s].trace[i].gate # "insert" => handler[s].trace[i].out = "ok"
    /\ handler[s].resp.status \in {429, 415, 401, 400} => handler[s].inserts = 0

C3_Witness ==
  \E s \in Handlers :
    /\ handler[s].pc = "done"
    /\ handler[s].inserts = 1
    /\ Last(handler[s].trace) = Step("insert", "fail")

(***************************************************************************)
(* C4 as stated.  Every record handed to the store's insert has a subject  *)
(* that is a text of 1 to 200 characters, a sender of the address shape, a *)
(* non-empty list of recipients each of the address shape, and a body that *)
(* is a text of 1 to 500,000 characters.                                   *)
(***************************************************************************)
C4_StoredRecordSatisfiesConstraints ==
  \A s \in Handlers : handler[s].inserts > 0 => SubmissionConstraints(handler[s].record)

(***************************************************************************)
(* C5.  The eleventh and later requests of a client within one window get  *)
(* 429, and each admitted request takes one unit of the quota at arrival   *)
(* and keeps it whatever the later gates answer.                           *)
(***************************************************************************)
C5_EleventhIs429 ==
  /\ [](\A ip \in DOMAIN observed :
          ipRequests[ip].count = Min(observed[ip].calls, RATE_LIMIT))
  /\ [][\A s \in Handlers, f \in OneClient :
          (ResolveIp(f) \in DOMAIN observed' /\ observed'[ResolveIp(f)].calls > RATE_LIMIT) =>
            \A c \in ContentTypes, d \in Deltas :
              Arrive(s, f, c, d) => handler'[s].pc = "done" /\ handler'[s].resp.status = 429]_vars

C5_Witness ==
  \E s, r \in Handlers, ip \in DOMAIN observed :
    /\ observed[ip].calls = RATE_LIMIT + 1
    /\ handler[s].resp.status = 429
    /\ handler[r].pc = "done"
    /\ handler[r].resp.status \in {400, 401, 415, 500}

(***************************************************************************)
(* C6.  When the insert of an invocation returns the inserted row, the     *)
(* response is 200 with success = true and emailId = the id of that row.   *)
(***************************************************************************)
C6_SuccessCarriesAssignedId ==
  [][\A s \in Handlers, o \in StoreOutcomes :
       InsertReturns(s, o) /\ o.kind = "row" =>
         /\ PassedValidation(handler[s].trace)
         /\ handler'[s].pc = "done"
         /\ handler'[s].resp.status = 200
         /\ handler'[s].resp.success
         /\ handler'[s].resp.emailId = o.id]_vars

C6_Witness ==
  \E s \in Handlers :
    /\ handler[s].resp.status = 200
    /\ handler[s].resp.emailId = MaxId
    /\ \E i \in 1..Len(handler[s].trace) : handler[s].trace[i] = Step("session", "ok")

(***************************************************************************)
(* C7.  With invocations of one client in flight at once, the entry's      *)
(* count is the number of requests admitted in the window (no increment is *)
(* lost) and never more than 10 are admitted in one window.                *)
(***************************************************************************)
C7_NoLostIncrement ==
  \A ip \in DOMAIN observed :
    /\ ip \in DOMAIN ipRequests
    /\ ipRequests[ip].timestamp = observed[ip].start
    /\ ipRequests[ip].count = observed[ip].admits
    /\ observed[ip].admits <= RATE_LIMIT

C7_Witness ==
  /\ \A s \in Handlers : InFlight(handler[s])
  /\ \E ip \in DOMAIN observed :
       observed[ip].admits = RATE_LIMIT /\ ipRequests[ip].count = RATE_LIMIT

(***************************************************************************)
(* C8.  A call for one client leaves the entry of every other client as it *)
(* was, and creates none for them.                                         *)
(***************************************************************************)
C8_OtherClientsUntouched ==
  [][\A f \in ForwardedFor, c \in NonJsonTypes, d \in DeltasRL :
       Arrive(1, f, c, d) =>
         /\ DOMAIN ipRequests' = DOMAIN ipRequests \cup {ResolveIp(f)}
         /\ \A b \in DOMAIN ipRequests \ {ResolveIp(f)} : ipRequests'[b] = ipRequests[b]]_vars

C8_Witness ==
  \E a, b \in DOMAIN ipRequests :
    /\ a # b
    /\ ipRequests[a].count = RATE_LIMIT
    /\ ipRequests[b].count = 2
    /\ ipRequests[a].timestamp # ipRequests[b].timestamp

(***************************************************************************)
(* C9 as stated.  Every request that reaches the rate limit gate changes   *)
(* the rate limiter's state, admitted or denied.                           *)
(***************************************************************************)
C9_EveryRequestMutates ==
  [][\A f \in ForwardedFor, c \in NonJsonTypes, d \in DeltasRL :
       Arrive(1, f, c, d) => ipRequests' # ipRequests]_vars

(***************************************************************************)
(* C9 amended.  A request that reaches the rate limit gate changes the     *)
(* client's entry if and only if it is admitted.                           *)
(***************************************************************************)
C9_MutatesIffAdmitted ==
  [][\A f \in ForwardedFor, c \in NonJsonTypes, d \in DeltasRL :
       Arrive(1, f, c, d) =>
         (handler'[1].resp.status # 429 <=> ipRequests' # ipRequests)]_vars

C9_Witness ==
  \E ip \in DOMAIN observed :
    /\ observed[ip].calls > RATE_LIMIT
    /\ observed[ip].admits = RATE_LIMIT
    /\ handler[1].resp.status = 429

(***************************************************************************)
(* C10.  A denied call leaves the client's entry as it was: count stays at *)
(* 10 and windowStart keeps its value.                                     *)
(***************************************************************************)
C10_DenialLeavesEntry ==
  [][\A f \in ForwardedFor, c \in NonJsonTypes, d \in DeltasRL :
       Arrive(1, f, c, d) /\ handler'[1].resp.status = 429 =>
         /\ ResolveIp(f) \in DOMAIN ipRequests
         /\ ipRequests'[ResolveIp(f)].count = RATE_LIMIT
         /\ ipRequests'[ResolveIp(f)].count = ipRequests[ResolveIp(f)].count
         /\ ipRequests'[ResolveIp(f)].timestamp = ipRequests[ResolveIp(f)].timestamp]_vars

C10_Witness ==
  \E ip \in DOMAIN observed :
    /\ observed[ip].calls >= RATE_LIMIT + 2
    /\ now > ipRequests[ip].timestamp
    /\ handler[1].resp.status = 429

(***************************************************************************)
(* C11.  For one client, the requests admitted within any span of at most  *)
(* 60,000 ms number at most 2 x 10, and more than 10 only when the span    *)
(* crosses a reset: it begins before the start of the current window and   *)
(* ends in it.                                                             *)
(***************************************************************************)
RECURSIVE SumOver(_, _)
SumOver(log, times) ==
  IF times = {} THEN 0
  ELSE LET u == CHOOSE v \in times : TRUE IN log[u] + SumOver(log, times \ {u})

AdmittedIn(log, a, b) == SumOver(log, {u \in DOMAIN log : a <= u /\ u <= b})

C11_BurstOnlyAcrossReset ==
  \A a, b \in DOMAIN admitted :
    (a <= b /\ b - a <= 60000) =>
      /\ AdmittedIn(admitted, a, b) <= 2 * 10
      /\ AdmittedIn(admitted, a, b) > 10 =>
           \E ip \in DOMAIN ipRequests :
             a < ipRequests[ip].timestamp /\ ipRequests[ip].timestamp <= b

C11_Witness ==
  \E a, b \in DOMAIN admitted :
    /\ a < b
    /\ b - a <= 60000
    /\ AdmittedIn(admitted, a, b) = 2 * 10 - 1
    /\ \E ip \in DOMAIN ipRequests :
         a < ipRequests[ip].timestamp /\ ipRequests[ip].timestamp = b

(***************************************************************************)
(* Vocabulary of the validator's properties: what section 4.1 calls a      *)
(* missing field, and the presence error of each field.                    *)
(***************************************************************************)
AbsentOrEmpty(v) ==
  \/ v.t \in {"undefined", "null"}
  \/ v.t = "string" /\ Len(v.s) + v.fill = 0

NoNonEmptySequence(v) == ~(v.t = "array" /\ Len(v.a) >= 1)

MissingMessages(d) ==
  (IF AbsentOrEmpty(Field(d, "subject")) THEN {"Subject is required"} ELSE {})
  \cup (IF AbsentOrEmpty(Field(d, "sender")) THEN {"Sender is required"} ELSE {})
  \cup (IF NoNonEmptySequence(Field(d, "recipients"))
        THEN {"At least one recipient is required"} ELSE {})
  \cup (IF AbsentOrEmpty(Field(d, "body")) THEN {"Email body is required"} ELSE {})

Returned == validation.state = "returned"

(***************************************************************************)
(* C12.  When subject, sender, recipients (a non-empty sequence) or body   *)
(* is missing, validateEmailData returns valid = false and one presence    *)
(* error for each missing field and no other error, whatever the other     *)
(* fields hold.                                                            *)
(***************************************************************************)
C12_OnlyPresenceErrors ==
  (Returned /\ MissingMessages(submission) # {}) =>
    /\ ~validation.valid
    /\ Len(validation.errors) = Cardinality(MissingMessages(submission))
    /\ \A m \in MissingMessages(submission) :
         \E i \in 1..Len(validation.errors) : validation.errors[i] = Err(m, << >>)

C12_Witness ==
  /\ Returned
  /\ submission.t = "object"
  /\ submission.subject = Undefined
  /\ submission.sender = BadAddr
  /\ submission.recipients = GoodAddr
  /\ submission.cc = Arr(<<BadAddr>>)
  /\ submission.body = Text(MAX_BODY_LENGTH + 1)
  /\ Len(validation.errors) = 2

(***************************************************************************)
(* What a caller does with the details of a 400 validation response: every *)
(* field an entry names is supplied or put right, every address an entry   *)
(* lists is replaced by a well-formed one, an over-long text is cut to the *)
(* maximum; what no entry names is left as it was.                         *)
(***************************************************************************)
Messages(details) == {details[i].msg : i \in 1..Len(details)}

TailOf(details, msg) == details[CHOOSE i \in 1..Len(details) : details[i].msg = msg].tail

RECURSIVE SplitFrom(_, _, _)
SplitFrom(str, i, cur) ==
  IF i > Len(str) THEN {cur}
  ELSE IF str[i] = "," /\ i < Len(str) /\ str[i + 1] = " "
  THEN {cur} \cup SplitFrom(str, i + 2, << >>)
  ELSE SplitFrom(str, i + 1, Append(cur, str[i]))

\* The addresses an entry lists.
Listed(tail) == SplitFrom(tail, 1, << >>)

CorrectedText(v, details, required, tooLong, max) ==
  IF required \in Messages(details) THEN Text(1)
  ELSE IF tooLong \in Messages(details) THEN Text(max)
  ELSE v

CorrectedList(v, details, format) ==
  IF format \in Messages(details) /\ v.t = "array"
  THEN Arr([i \in 1..Len(v.a) |->
              IF v.a[i].t = "string" /\ Chars(v.a[i]) \in Listed(TailOf(details, format))
              THEN GoodAddr ELSE v.a[i]])
  ELSE v

Corrected(d, details) ==
  Obj(CorrectedText(Field(d, "subject"), details, "Subject is required",
                    "Subject exceeds maximum length of N characters", 200),
      IF {"Sender is required", "Sender email format is invalid"} \cap Messages(details) # {}
      THEN GoodAddr ELSE Field(d, "sender"),
      IF "At least one recipient is required" \in Messages(details)
      THEN Arr(<<GoodAddr>>)
      ELSE CorrectedList(Field(d, "recipients"), details, "Invalid recipient email format: "),
      CorrectedList(Field(d, "cc"), details, "Invalid CC email format: "),
      CorrectedList(Field(d, "bcc"), details, "Invalid BCC email format: "),
      CorrectedText(Field(d, "body"), details, "Email body is required",
                    "Email body exceeds maximum length of N characters", 500000))

\* The details of the 400 response POST builds from the validator's result.
Details == ValidationFailedResponse(validation.errors).details

(***************************************************************************)
(* C13 as stated.  For every invalid submission the details of the 400     *)
(* validation response list everything that is wrong with it: a caller who *)
(* corrects everything listed has a submission that passes validation.     *)
(***************************************************************************)
C13_OneResponseSuffices ==
  (Returned /\ ~validation.valid) =>
    validateEmailData(Corrected(submission, Details)).valid

(***************************************************************************)
(* C13 amended.  When no required field is missing, correcting everything  *)
(* the details list gives a submission that passes validation; when a      *)
(* required field is missing the details are the presence errors only, and *)
(* the corrected submission passes validation after at most one more 400   *)
(* response.                                                               *)
(***************************************************************************)
C13_OneResponseUnlessMissing ==
  (Returned /\ ~validation.valid) =>
    LET once == Corrected(submission, Details)
        again == validateEmailData(once)
    IN IF MissingMessages(submission) = {}
       THEN again.valid
       ELSE /\ Messages(Details) = MissingMessages(submission)
            /\ \/ again.valid
               \/ validateEmailData(
                    Corrected(once, ValidationFailedResponse(again.errors).details)).valid

C13_Witness ==
  /\ Returned
  /\ MissingMessages(submission) = {}
  /\ Len(Details) = 6
  /\ submission.recipients = Arr(<<BadAddr, NoDotAddr>>)
  /\ validateEmailData(Corrected(submission, Details)).valid

(***************************************************************************)
(* C14.  With all required fields present, each of recipients, cc and bcc  *)
(* gives at most one error entry; the entry is there iff the list is a     *)
(* non-empty sequence with an element that fails the shape rule, and it    *)
(* names the failing elements, all of them and no other, separated by      *)
(* commas in the order of the list, whatever the other two lists hold.     *)
(***************************************************************************)
Failing(v) == SelectSeq(v.a, LAMBDA e : ~IsAddress(e))

RECURSIVE CommaSeparatedFrom(_, _)
CommaSeparatedFrom(elems, i) ==
  IF i > Len(elems) THEN << >>
  ELSE Chars(elems[i]) \o (IF i < Len(elems) THEN <<",", " ">> ELSE << >>)
       \o CommaSeparatedFrom(elems, i + 1)

EntriesWith(details, msg) == {i \in 1..Len(details) : details[i].msg = msg}

OneEntryNamingTheFailing(v, msg) ==
  /\ Cardinality(EntriesWith(validation.errors, msg)) <= 1
  /\ EntriesWith(validation.errors, msg) # {} <=>
       (v.t = "array" /\ Len(v.a) >= 1 /\ Len(Failing(v)) >= 1)
  /\ EntriesWith(validation.errors, msg) # {} =>
       TailOf(validation.errors, msg) = CommaSeparatedFrom(Failing(v), 1)

C14_OneEntryPerList ==
  (Returned /\ MissingMessages(submission) = {}) =>
    /\ OneEntryNamingTheFailing(Field(submission, "recipients"), "Invalid recipient email format: ")
    /\ OneEntryNamingTheFailing(Field(submission, "cc"), "Invalid CC email format: ")
    /\ OneEntryNamingTheFailing(Field(submission, "bcc"), "Invalid BCC email format: ")

C14_Witness ==
  /\ Returned
  /\ MissingMessages(submission) = {}
  /\ submission.recipients = Arr(<<NoDotAddr, BadAddr>>)
  /\ submission.cc = Arr(<<OtherAddr, BadAddr>>)
  /\ submission.bcc = Arr(<<OtherAddr>>)
  /\ TailOf(validation.errors, "Invalid recipient email format: ")
       = Chars(NoDotAddr) \o <<",", " ">> \o Chars(BadAddr)
  /\ TailOf(validation.errors, "Invalid CC email format: ") = Chars(BadAddr)
  /\ EntriesWith(validation.errors, "Invalid BCC email format: ") = {}

(***************************************************************************)
(* C16.  The length bounds are inclusive.  With every other field valid, a *)
(* subject of L characters is accepted iff L <= 200, and one of more than  *)
(* 200 gives the subject length error alone; a body of M characters is     *)
(* accepted iff M <= 500,000, and one of more than 500,000 gives the body  *)
(* length error alone.                                                     *)
(***************************************************************************)
IsAddressList(v) == v.t = "array" /\ \A i \in 1..Len(v.a) : IsAddress(v.a[i])

AddressFieldsValid(d) ==
  /\ IsAddress(Field(d, "sender"))
  /\ IsAddressList(Field(d, "recipients"))
  /\ Len(Field(d, "recipients").a) >= 1
  /\ Field(d, "cc").t = "undefined" \/ IsAddressList(Field(d, "cc"))
  /\ Field(d, "bcc").t = "undefined" \/ IsAddressList(Field(d, "bcc"))

IsNonEmptyText(v) == v.t = "string" /\ Len(v.s) + v.fill >= 1

C16_InclusiveLengthBounds ==
  (Returned /\ AddressFieldsValid(submission)) =>
    /\ (IsNonEmptyText(Field(submission, "subject")) /\ IsTextUpTo(Field(submission, "body"), 500000)) =>
         /\ validation.valid <=> LengthOf(Field(submission, "subject")) <= 200
         /\ LengthOf(Field(submission, "subject")) > 200 =>
              validation.errors = <<Err("Subject exceeds maximum length of N characters",
                                        <<"2", "0", "0">>)>>
    /\ (IsNonEmptyText(Field(submission, "body")) /\ IsTextUpTo(Field(submission, "subject"), 200)) =>
         /\ validation.valid <=> LengthOf(Field(submission, "body")) <= 500000
         /\ LengthOf(Field(submission, "body")) > 500000 =>
              validation.errors = <<Err("Email body exceeds maximum length of N characters",
                                        <<"5", "0", "0", "0", "0", "0">>)>>

C16_Witness ==
  /\ Returned
  /\ AddressFieldsValid(submission)
  /\ submission.subject = Text(201)
  /\ submission.body = Text(500000)
  /\ ~validation.valid
  /\ Len(validation.errors) = 1

(***************************************************************************)
(* C15 as stated.  The cc and the bcc of every record handed to the        *)
(* store's insert are sequences whose elements all have the address shape  *)
(* (empty when the field is absent), and a payload whose cc or bcc holds a *)
(* value that does not have the shape is answered 400 and never stored.    *)
(***************************************************************************)
HoldsNonAddress(v) ==
  \/ v.t = "array" /\ \E i \in 1..Len(v.a) : ~IsAddress(v.a[i])
  \/ v.t \notin {"array", "undefined", "null"}

C15_CcBccAreAddressLists ==
  \A s \in Handlers :
    /\ handler[s].inserts > 0 =>
         /\ IsAddressList(handler[s].record.cc)
         /\ IsAddressList(handler[s].record.bcc)
    /\ (/\ \E i \in 1..Len(handler[s].trace) : handler[s].trace[i].gate = "valid"
        /\ AllBodies[handler[s].body].value.t = "object"
        /\ \/ HoldsNonAddress(AllBodies[handler[s].body].value.cc)
           \/ HoldsNonAddress(AllBodies[handler[s].body].value.bcc)) =>
         /\ handler[s].inserts = 0
         /\ handler[s].resp.status = 400

(***************************************************************************)
(* C17.  validateEmailData returns valid = true iff its error list is      *)
(* empty, and the errors come in the fixed order: presence of subject, of  *)
(* sender, of recipients, of body, then sender format, recipients format,  *)
(* cc format, bcc format, subject length, body length.                     *)
(***************************************************************************)
ErrorOrder ==
  << "Subject is required", "Sender is required", "At least one recipient is required",
     "Email body is required", "Sender email format is invalid",
     "Invalid recipient email format: ", "Invalid CC email format: ",
     "Invalid BCC email format: ", "Subject exceeds maximum length of N characters",
     "Email body exceeds maximum length of N characters" >>

Rank(msg) == CHOOSE i \in 1..Len(ErrorOrder) : ErrorOrder[i] = msg

C17_ValidIffNoErrorsInOrder ==
  Returned =>
    /\ validation.valid <=> Len(validation.errors) = 0
    /\ \A i \in 1..Len(validation.errors) :
         \E k \in 1..Len(ErrorOrder) : ErrorOrder[k] = validation.errors[i].msg
    /\ \A i, j \in 1..Len(validation.errors) :
         i < j => Rank(validation.errors[i].msg) < Rank(validation.errors[j].msg)

C17_Witness ==
  /\ Returned
  /\ ~validation.valid
  /\ Len(validation.errors) = 6
  /\ validation.errors[1].msg = "Sender email format is invalid"
  /\ validation.errors[6].msg = "Email body exceeds maximum length of N characters"

(***************************************************************************)
(* C18.  Outside development mode an invocation whose session lookup finds *)
(* no session is answered 401 and never reads the payload, validates it or *)
(* calls the insert, and an invocation reads the payload only after a      *)
(* lookup that found a session; in development mode the session is never   *)
(* looked up and no response is 401.                                       *)
(***************************************************************************)
HasStep(tr, gate) == \E i \in 1..Len(tr) : tr[i].gate = gate

C18_SessionGate ==
  /\ [](\A s \in Handlers :
          /\ (\E i \in 1..Len(handler[s].trace) : handler[s].trace[i] = Step("session", "fail")) =>
               /\ ~isDevelopment
               /\ handler[s].pc = "done"
               /\ handler[s].resp.status = 401
               /\ handler[s].body = 0
               /\ handler[s].inserts = 0
               /\ ~HasStep(handler[s].trace, "parse")
               /\ ~HasStep(handler[s].trace, "valid")
               /\ ~HasStep(handler[s].trace, "insert")
          /\ (~isDevelopment /\ (handler[s].pc = "json" \/ HasStep(handler[s].trace, "parse"))) =>
               \E i \in 1..Len(handler[s].trace) : handler[s].trace[i] = Step("session", "ok")
          /\ isDevelopment =>
               /\ ~HasStep(handler[s].trace, "session")
               /\ handler[s].pc # "getSession"
               /\ handler[s].resp.status # 401)
  /\ [][\A s \in Handlers :
          GetSessionReturns(s, "none") =>
            /\ handler[s].trace = <<Step("rate", "ok"), Step("type", "ok"), Step("client", "ok")>>
            /\ handler'[s].pc = "done"
            /\ handler'[s].resp.status = 401]_vars

C18_Witness ==
  \E s, r \in Handlers :
    /\ ~isDevelopment
    /\ handler[s].resp.status = 401
    /\ handler[r].pc = "insert"

(***************************************************************************)
(* SpecOneLive: SpecOne, where every awaited call settles.                 *)
(***************************************************************************)
SpecOneLive ==
  /\ SpecOne
  /\ WF_vars(\E o \in ClientOutcomes : CreateClientReturns(1, o))
  /\ WF_vars(\E o \in SessionOutcomes : GetSessionReturns(1, o))
  /\ WF_vars(\E b \in 1..Len(AllBodies) : JsonReturns(1, b))
  /\ WF_vars(\E o \in StoreOutcomes : InsertReturns(1, o))

(***************************************************************************)
(* C19.  When the awaited calls settle, every request ends with a          *)
(* response; an invocation has no response while it is at an await, one    *)
(* response with status 200, 400, 401, 415, 429 or 500 when it has ended,  *)
(* which stays as it is until the next request; and an exception of        *)
(* createClient, of getSession, of the validator or of the insert gives    *)
(* 500.                                                                    *)
(***************************************************************************)
C19_AlwaysOneResponse ==
  /\ [](\A s \in Handlers :
          /\ InFlight(handler[s]) => handler[s].resp = NoResponse
          /\ handler[s].pc = "done" =>
               /\ handler[s].resp.status \in {200, 400, 401, 415, 429, 500}
               /\ Last(handler[s].trace).out = "throw" => handler[s].resp.status = 500)
  /\ [][\A s \in Handlers :
          (handler[s].pc = "done" /\ handler'[s] # handler[s]) =>
            Len(handler'[s].trace) <= 2]_vars
  /\ \A s \in Handlers : InFlight(handler[s]) ~> handler[s].pc = "done"

C19_Witness ==
  /\ handler[1].pc = "done"
  /\ handler[1].resp.status = 500
  /\ Last(handler[1].trace) = Step("insert", "throw")

(***************************************************************************)
(* C20.  The window test is strict.  A call made exactly 60,000 ms after   *)
(* windowStart belongs to the current window: it is denied and changes     *)
(* nothing if count is 10, and is allowed with count + 1 and the same      *)
(* windowStart otherwise.  The entry is reset, to count = 1 and            *)
(* windowStart = now, only by a call made more than 60,000 ms after        *)
(* windowStart.                                                            *)
(***************************************************************************)
C20_StrictWindowTest ==
  [][\A f \in ForwardedFor, c \in NonJsonTypes, d \in DeltasRL :
       (Arrive(1, f, c, d) /\ ResolveIp(f) \in DOMAIN ipRequests) =>
         /\ now' - ipRequests[ResolveIp(f)].timestamp = 60000 =>
              /\ ipRequests'[ResolveIp(f)].timestamp = ipRequests[ResolveIp(f)].timestamp
              /\ IF ipRequests[ResolveIp(f)].count = 10
                 THEN /\ handler'[1].resp.status = 429
                      /\ ipRequests'[ResolveIp(f)].count = 10
                 ELSE /\ handler'[1].resp.status # 429
                      /\ ipRequests'[ResolveIp(f)].count = ipRequests[ResolveIp(f)].count + 1
         /\ ipRequests'[ResolveIp(f)].timestamp # ipRequests[ResolveIp(f)].timestamp =>
              /\ now' - ipRequests[ResolveIp(f)].timestamp > 60000
              /\ ipRequests'[ResolveIp(f)] = [count |-> 1, timestamp |-> now']]_vars

C20_Witness ==
  \E ip \in DOMAIN ipRequests :
    /\ now - ipRequests[ip].timestamp = 60000
    /\ ipRequests[ip].count = 10
    /\ observed[ip].calls = 11
    /\ observed[ip].start = ipRequests[ip].timestamp
    /\ handler[1].resp.status = 429

(***************************************************************************)
(* C21.  Every entry of the Map has 1 <= count <= 10, and count is the     *)
(* number of the client's requests admitted since the one that set the     *)
(* entry's windowStart, that one included.                                 *)
(***************************************************************************)
C21_CountIsAdmittedSinceWindowStart ==
  \A ip \in DOMAIN ipRequests :
    /\ 1 <= ipRequests[ip].count
    /\ ipRequests[ip].count <= 10
    /\ ipRequests[ip].count = AdmittedIn(admitted, ipRequests[ip].timestamp, now)

C21_Witness ==
  \E ip \in DOMAIN ipRequests :
    /\ ipRequests[ip].count = 10
    /\ ipRequests[ip].timestamp > 0
    /\ \E u \in DOMAIN admitted : u < ipRequests[ip].timestamp /\ admitted[u] > 1
    /\ handler[1].resp.status = 429

(***************************************************************************)
(* C22.  The window is fixed.  A request no later than 60,000 ms after     *)
(* windowStart keeps windowStart, and adds exactly 1 to count if it is     *)
(* admitted and nothing if it is denied; windowStart is set only by the    *)
(* request that creates the entry or resets it.  A request later than      *)
(* windowStart + 60,000 ms is admitted and opens a window at its own time, *)
(* whatever count was and however many requests were denied before it.     *)
(***************************************************************************)
C22_FixedWindow ==
  [][\A s \in Handlers, f \in OneClient, c \in NonJsonTypes, d \in DeltasRL :
       Arrive(s, f, c, d) =>
         IF ResolveIp(f) \notin DOMAIN ipRequests
         THEN ipRequests'[ResolveIp(f)] = [count |-> 1, timestamp |-> now']
         ELSE IF now' - ipRequests[ResolveIp(f)].timestamp <= 60000
         THEN /\ ipRequests'[ResolveIp(f)].timestamp = ipRequests[ResolveIp(f)].timestamp
              /\ ipRequests'[ResolveIp(f)].count =
                   ipRequests[ResolveIp(f)].count
                   + (IF handler'[s].resp.status = 429 THEN 0 ELSE 1)
         ELSE /\ handler'[s].resp.status # 429
              /\ ipRequests'[ResolveIp(f)] = [count |-> 1, timestamp |-> now']]_vars

C22_Witness ==
  \E s, r \in Handlers, ip \in DOMAIN ipRequests :
    /\ handler[s].resp.status = 429
    /\ handler[r].resp.status = 415
    /\ ipRequests[ip] = [count |-> 1, timestamp |-> now]
    /\ now = 90000

(***************************************************************************)
(* C23 as stated.  A request with no x-forwarded-for header, or an empty   *)
(* one, is counted against the one entry keyed "unknown" and touches no    *)
(* other: of such requests in one window the first 10 are admitted and the *)
(* rest get 429.  A request whose header has a value neither changes nor   *)
(* creates that entry.                                                     *)
(***************************************************************************)
C23_SentinelEntryIsForHeaderless ==
  [][\A f \in ForwardedFor, c \in NonJsonTypes, d \in DeltasRL :
       Arrive(1, f, c, d) =>
         IF ~f.present \/ f.value = ""
         THEN /\ "unknown" \in DOMAIN ipRequests'
              /\ \A k \in DOMAIN ipRequests \ {"unknown"} : ipRequests'[k] = ipRequests[k]
              /\ handler'[1].resp.status = 429 <=> observed'["unknown"].calls > 10
         ELSE /\ "unknown" \in DOMAIN ipRequests' => "unknown" \in DOMAIN ipRequests
              /\ "unknown" \in DOMAIN ipRequests =>
                   ipRequests'["unknown"] = ipRequests["unknown"]]_vars

(***************************************************************************)
(* C24 as stated.  A payload whose recipients is a bare address, not a     *)
(* sequence, and which is valid otherwise, passes validation, and the      *)
(* insert receives the one-element sequence holding that address.          *)
(***************************************************************************)
BareRecipient(d) ==
  /\ d.t = "object"
  /\ IsAddress(d.recipients)
  /\ IsTextUpTo(d.subject, 200)
  /\ IsAddress(d.sender)
  /\ d.cc.t = "undefined" \/ IsAddressList(d.cc)
  /\ d.bcc.t = "undefined" \/ IsAddressList(d.bcc)
  /\ IsTextUpTo(d.body, 500000)

C24_BareRecipientIsWrapped ==
  \A s \in Handlers :
    (/\ HasStep(handler[s].trace, "valid")
     /\ BareRecipient(AllBodies[handler[s].body].value)) =>
      /\ PassedValidation(handler[s].trace)
      /\ handler[s].inserts = 1
      /\ handler[s].record.recipient = Arr(<<AllBodies[handler[s].body].value.recipients>>)

(***************************************************************************)
(* C25.  isValidEmail accepts a string iff the string is, with nothing     *)
(* before or after: one or more of letters, digits and . _ % + -; an @;    *)
(* one or more of letters, digits, . and -; a dot; two or more letters.    *)
(***************************************************************************)
C25_AcceptsExactlyTheShape ==
  validation.state = "tested" => (validation.valid <=> MatchesShape(Chars(submission)))

C25_Witness ==
  /\ validation.state = "tested"
  /\ validation.valid
  /\ submission = Str(<<"_", "@", "1", ".", ".", "a", "a">>)

====
